---- MODULE Spec2Model ----
(***************************************************************************)
(* Model of streamlit_app.py: a Streamlit script that lists a Snowflake    *)
(* stage, uploads a PDF to the stage DOCS and runs a Document AI model on  *)
(* it, singly or in batch.  Every user interaction re-executes the script  *)
(* from the top; one action of the model is one such run of the script.    *)
(*                                                                         *)
(* Python strings are sequences of one-character strings, so that lower(), *)
(* startswith(), endswith(), slicing, `in` and replace() are computed as   *)
(* Python computes them.  Python's None, where a value may also be a       *)
(* string, is the empty option <<>> and a value v is <<v>>.                *)
(***************************************************************************)
EXTENDS Integers, Sequences, FiniteSets, TLC

\* ------------------------------------------------------------------ bounds

\* The number of temporary directories that may exist at once (left-overs of
\* failed removals included); mkdtemp is not modelled beyond it.
MaxTmpDirs == 1

\* ------------------------------------------------------- configuration

DEFAULT_UPLOAD_STAGE == <<"D","O","C","S">>
DOC_AI_MODEL_NAME == "DEMO_FSI_ACCELERATE.BANK_STATEMENT_DOCAI.BANK_STATEMENT_DOCAI"
DOC_AI_UDF_TARGET_STAGE_SQL == "@DEMO_FSI_ACCELERATE.BANK_STATEMENT_DOCAI.DOCS"

\* ------------------------------------------------------------- strings

UPPER == <<"A","B","C","D","E","F","G","H","I","J","K","L","M","N","O","P","Q","R","S","T","U","V","W","X","Y","Z">>
LOWER == <<"a","b","c","d","e","f","g","h","i","j","k","l","m","n","o","p","q","r","s","t","u","v","w","x","y","z">>

ToLower == [c \in {UPPER[i] : i \in 1..Len(UPPER)} |->
               LOWER[CHOOSE i \in 1..Len(UPPER) : UPPER[i] = c]]

LowerChar(c) == IF c \in DOMAIN ToLower THEN ToLower[c] ELSE c

\* str.lower()
Lower(s) == [i \in 1..Len(s) |-> LowerChar(s[i])]

\* str.startswith(p)
StartsWith(s, p) == Len(p) <= Len(s) /\ SubSeq(s, 1, Len(p)) = p

\* str.endswith(p)
EndsWith(s, p) == Len(p) <= Len(s) /\ SubSeq(s, Len(s) - Len(p) + 1, Len(s)) = p

\* `sub in s`
Contains(sub, s) ==
    \E i \in 0..(Len(s) - Len(sub)) : SubSeq(s, i + 1, i + Len(sub)) = sub

\* s[n:]
DropFirst(s, n) == SubSeq(s, n + 1, Len(s))

\* str.lstrip(c): every leading c is removed
RECURSIVE LStrip(_, _)
LStrip(s, c) == IF s # <<>> /\ s[1] = c THEN LStrip(Tail(s), c) ELSE s

\* str.replace("'", "''")
RECURSIVE EscapeQuotes(_)
EscapeQuotes(s) ==
    IF s = <<>> THEN <<>>
    ELSE (IF s[1] = "'" THEN <<"'", "'">> ELSE <<s[1]>>) \o EscapeQuotes(Tail(s))

\* os.path.basename of a path whose components are separated by "/"
RECURSIVE Basename(_)
Basename(p) ==
    IF \E i \in 1..Len(p) : p[i] = "/"
    THEN Basename(DropFirst(p, CHOOSE i \in 1..Len(p) : p[i] = "/"))
    ELSE p

\* The error signatures the helpers look for
SigNotAuthorized == <<"d","o","e","s"," ","n","o","t"," ","e","x","i","s","t"," ","o","r"," ","n","o","t"," ","a","u","t","h","o","r","i","z","e","d">>
SigInvalidIdentifier == <<"i","n","v","a","l","i","d"," ","i","d","e","n","t","i","f","i","e","r">>
SigNoSuchFunction == <<"n","o"," ","s","u","c","h"," ","f","u","n","c","t","i","o","n">>
SigFailedCast == <<"f","a","i","l","e","d"," ","t","o"," ","c","a","s","t"," ","v","a","r","i","a","n","t"," ","v","a","l","u","e">>
SigErrorProcessing == <<"E","r","r","o","r"," ","p","r","o","c","e","s","s","i","n","g"," ","f","i","l","e">>
SigFileNotFound == <<"F","i","l","e"," ","n","o","t"," ","f","o","u","n","d">>
SigDirNotFound == <<"D","i","r","e","c","t","o","r","y"," ","n","o","t"," ","f","o","u","n","d">>
SigDoesNotExist == <<"d","o","e","s"," ","n","o","t"," ","e","x","i","s","t">>
PdfSuffix == <<".","p","d","f">>

\* ------------------------------------------------- the remote engine

\* Messages a failing remote call may carry
MsgFileNotFound == <<"F","i","l","e"," ","n","o","t"," ","f","o","u","n","d">>
MsgFileNotFoundLc == <<"f","i","l","e"," ","n","o","t"," ","f","o","u","n","d">>
MsgInvalidIdentifier == <<"S","Q","L"," ","e","r","r","o","r",":"," ","i","n","v","a","l","i","d"," ","i","d","e","n","t","i","f","i","e","r">>
MsgFailedCast == <<"F","a","i","l","e","d"," ","t","o"," ","c","a","s","t"," ","v","a","r","i","a","n","t"," ","v","a","l","u","e">>
MsgNotAuthorized == <<"S","t","a","g","e"," ","d","o","e","s"," ","n","o","t"," ","e","x","i","s","t"," ","o","r"," ","n","o","t"," ","a","u","t","h","o","r","i","z","e","d">>
MsgTimeout == <<"t","i","m","e","o","u","t">>

\* File names
NameUpload == <<"c","'",".","P","D","F">>
NameNested == <<"d","o","c","s","/","b",".","p","d","f">>
NameText == <<"n",".","t","x","t">>

\* The names the file picker (type="pdf") may hand over
UploadNames == {NameUpload}

\* The order in which the engine reports the objects of a stage
NameOrder == <<NameUpload, NameNested, NameText>>

\* What the user may type into the stage-name field
InDocs == <<"D","O","C","S">>
InAtDocs == <<"@","D","O","C","S">>
InLower == <<"d","o","c","s">>
InMissing == <<"X">>
TypedStageNames == {InDocs, InAtDocs, InLower, InMissing, <<>>}

\* Prediction texts: one that json.loads accepts, one that it rejects
PredJson == "{\"total\": 1}"
PredRaw == "n/a"
PredValues == {PredJson, PredRaw}

Ok == [kind |-> "ok", msg |-> <<>>, rows |-> <<>>]
OkRows(r) == [kind |-> "ok", msg |-> <<>>, rows |-> r]
SqlError(m) == [kind |-> "sql", msg |-> m, rows |-> <<>>]
OtherError(m) == [kind |-> "exc", msg |-> m, rows |-> <<>>]
NotRun == [kind |-> "none", msg |-> <<>>, rows |-> <<>>]

\* -------------------------------------------------------------- state

VARIABLES
    session,                      \* module global `session` of the latest run: "Session" or "None"
    session_init_error,           \* module global `session_init_error`: TRUE when get_active_session raised
    stage_name_for_file_listing,  \* st.session_state.stage_name_for_file_listing
    listing_present,              \* 'files_in_stage_listing' in st.session_state
    files_in_stage_listing,       \* st.session_state.files_in_stage_listing
    uploaded_file,                \* the file picker's value: <<>> (None) or the file's name
    same_root,                    \* whether @DOCS of the session is the stage the model reads
    stage_files,                  \* the remote stages' objects
    tmp_dirs,                     \* the temporary directories that exist locally
    tmp_files,                    \* the local files that exist, as <<directory, name>>
    calls,                        \* the remote calls the latest run issued, in order
    messages,                     \* what the latest run showed the user, in order
    run_end,                      \* how the latest run ended
    controls,                     \* the controls the latest run rendered (what the user can act on)
    display_paths,                \* the listing as the latest run displayed it
    doc_ai_result,                \* doc_ai_result of the latest upload-and-run, as an option
    last_run                      \* what happened in the latest run (the inputs it drew)

vars == <<session, session_init_error, stage_name_for_file_listing, listing_present,
          files_in_stage_listing, uploaded_file, same_root, stage_files, tmp_dirs,
          tmp_files, calls, messages, run_end, controls, display_paths, doc_ai_result,
          last_run>>

Msg(level, text) == [level |-> level, text |-> text]
Call(op, arg, sql) == [op |-> op, arg |-> arg, sql |-> sql]

\* `if not current_session`
Truthy(s) == s = "Session"

\* --------------------------------------------- the remote engine, continued

\* The stage a stage location such as @DOCS names: identifiers are not
\* case-sensitive; only DOCS exists in the session's schema.
StageOf(location) ==
    IF Lower(DropFirst(location, 1)) = Lower(DEFAULT_UPLOAD_STAGE) THEN "UPLOAD" ELSE "NONE"

\* The stage whose objects a stage id denotes: with same_root the session's
\* DOCS is the stage the model function reads.
Effective(id, same) == IF same /\ id = "UPLOAD" THEN "TARGET" ELSE id

\* The rows of LS: the object's path after the lower-cased stage name
LsRows(location, store, same) ==
    LET objs == store[Effective(StageOf(location), same)]
        present == SelectSeq(NameOrder, LAMBDA n : n \in objs)
    IN  [i \in 1..Len(present) |->
            Lower(DropFirst(location, 1)) \o <<"/">> \o present[i]]

\* What `LS location` may do
LsOutcomes(location, store, same) ==
    IF StageOf(location) = "NONE"
    THEN {SqlError(MsgNotAuthorized)}
    ELSE {OkRows(LsRows(location, store, same)), SqlError(MsgNotAuthorized),
          OtherError(MsgTimeout)}

\* What session.file.put may do
PutOutcomes == {Ok, SqlError(MsgNotAuthorized), OtherError(MsgTimeout)}

\* The store after a put of local file `name` to `location` (overwrite=True)
StoreAfterPut(store, same, location, name) ==
    [store EXCEPT ![Effective(StageOf(location), same)] = @ \cup {name}]

\* The string a SQL literal body denotes: '' is one quote
RECURSIVE SqlUnescape(_)
SqlUnescape(s) ==
    IF s = <<>> THEN <<>>
    ELSE IF Len(s) >= 2 /\ s[1] = "'" /\ s[2] = "'"
         THEN <<"'">> \o SqlUnescape(DropFirst(s, 2))
         ELSE <<s[1]>> \o SqlUnescape(Tail(s))

\* What the single PREDICT query may do: on an object that is not in the
\* target stage GET_PRESIGNED_URL fails; otherwise the model answers with a
\* text, a NULL or no row, or the engine fails.
PredictOutcomes(literal, store) ==
    IF SqlUnescape(literal) \notin store["TARGET"]
    THEN {SqlError(MsgFileNotFound), SqlError(MsgFileNotFoundLc)}
    ELSE {OkRows(<< <<<<v>>>> >>) : v \in PredValues}
         \cup {OkRows(<< <<<<>>>> >>), OkRows(<<>>),
               SqlError(MsgInvalidIdentifier), SqlError(MsgFailedCast),
               OtherError(MsgTimeout)}

\* The prediction the model gives for an object in the batch query
BatchPrediction(n) == IF EndsWith(Lower(n), PdfSuffix) THEN <<PredJson>> ELSE <<>>

\* What the batch query may do
BatchOutcomes(store) ==
    LET present == SelectSeq(NameOrder, LAMBDA n : n \in store["TARGET"])
    IN  {OkRows([i \in 1..Len(present) |->
                    [RELATIVE_PATH |-> present[i], PREDICTION |-> BatchPrediction(present[i])]]),
         SqlError(MsgNotAuthorized), OtherError(MsgTimeout)}

\* json.loads(text) succeeds
JsonLoads(text) == text = PredJson

\* ------------------------------------------------------ helper functions

\* list_files_in_stage(current_session, stage_name), `out` being what the LS
\* query does
FormattedStageName(stage_name) == <<"@">> \o LStrip(stage_name, "@")

list_files_in_stage(current_session, stage_name, out) ==
    IF ~Truthy(current_session)
    THEN [ret |-> <<>>, calls |-> <<>>, msgs |-> <<Msg("error", "no_session")>>]
    ELSE LET formatted_stage_name == FormattedStageName(stage_name)
             call == <<Call("ls", formatted_stage_name, formatted_stage_name)>>
         IN  CASE out.kind = "ok" ->
                    [ret |-> out.rows, calls |-> call, msgs |-> <<>>]
               [] out.kind = "sql" ->
                    [ret |-> <<>>, calls |-> call,
                     msgs |-> <<Msg("error", "list_sql_error")>> \o
                              (IF Contains(SigNotAuthorized, Lower(out.msg))
                               THEN <<Msg("warning", "list_stage_hint")>> ELSE <<>>)]
               [] OTHER ->
                    [ret |-> <<>>, calls |-> call,
                     msgs |-> <<Msg("error", "list_unexpected_error")>>]

\* Mutant of upload_file_to_stage: the SnowparkSQLException handler returns True
upload_file_to_stage_SqlErrorTrue(current_session, local_file_path, target_stage_name_no_at, out) ==
    IF ~Truthy(current_session)
    THEN [ret |-> FALSE, calls |-> <<>>, msgs |-> <<Msg("error", "no_session")>>]
    ELSE LET call == <<Call("put", Basename(local_file_path),
                            FormattedStageName(target_stage_name_no_at))>>
         IN  [ret |-> out.kind \in {"ok", "sql"}, calls |-> call,
              msgs |-> <<Msg("info", "uploading")>>]

\* upload_file_to_stage(current_session, local_file_path, target_stage_name_no_at)
upload_file_to_stage(current_session, local_file_path, target_stage_name_no_at, out) ==
    IF ~Truthy(current_session)
    THEN [ret |-> FALSE, calls |-> <<>>, msgs |-> <<Msg("error", "no_session")>>]
    ELSE LET stage_location_for_put == FormattedStageName(target_stage_name_no_at)
             remote_filename == Basename(local_file_path)
             call == <<Call("put", remote_filename, stage_location_for_put)>>
         IN  CASE out.kind = "ok" ->
                    [ret |-> TRUE, calls |-> call,
                     msgs |-> <<Msg("info", "uploading"), Msg("success", "uploaded")>>]
               [] out.kind = "sql" ->
                    [ret |-> FALSE, calls |-> call,
                     msgs |-> <<Msg("info", "uploading"), Msg("error", "upload_sql_error")>>]
               [] OTHER ->
                    [ret |-> FALSE, calls |-> call,
                     msgs |-> <<Msg("info", "uploading"), Msg("error", "upload_unexpected_error")>>]

\* The hint run_doc_ai_on_file adds to a SnowparkSQLException's message
PredictHint(msg) ==
    IF Contains(SigInvalidIdentifier, Lower(msg)) \/ Contains(SigNoSuchFunction, Lower(msg))
    THEN <<Msg("warning", "model_hint")>>
    ELSE IF Contains(SigFailedCast, Lower(msg)) \/ Contains(SigErrorProcessing, Lower(msg))
    THEN <<Msg("warning", "unsupported_file_hint")>>
    ELSE IF Contains(SigFileNotFound, Lower(msg))
    THEN <<Msg("warning", "file_not_found_hint")>>
    ELSE <<>>

\* Mutant of HasResult: the `is not None` test is missing
HasResult_NoNullTest(result_rows) == Len(result_rows) > 0

\* `result_rows and len(result_rows) > 0 and result_rows[0][0] is not None`
HasResult(result_rows) == Len(result_rows) > 0 /\ result_rows[1][1] # <<>>

\* run_doc_ai_on_file(current_session, file_path_in_udf_target_stage, doc_ai_model)
run_doc_ai_on_file(current_session, file_path_in_udf_target_stage, doc_ai_model, out) ==
    IF ~Truthy(current_session)
    THEN [ret |-> <<>>, calls |-> <<>>, msgs |-> <<Msg("error", "no_session")>>]
    ELSE LET escaped_file_path == EscapeQuotes(file_path_in_udf_target_stage)
             call == <<Call("predict", file_path_in_udf_target_stage, escaped_file_path)>>
             info == <<Msg("info", "running_doc_ai")>>
         IN  CASE out.kind = "ok" ->
                    IF HasResult(out.rows)
                    THEN [ret |-> out.rows[1][1], calls |-> call,
                          msgs |-> info \o <<Msg("success", "doc_ai_processed")>>]
                    ELSE [ret |-> <<>>, calls |-> call,
                          msgs |-> info \o <<Msg("warning", "doc_ai_no_result")>>]
               [] out.kind = "sql" ->
                    [ret |-> <<>>, calls |-> call,
                     msgs |-> info \o <<Msg("error", "doc_ai_sql_error")>> \o PredictHint(out.msg)]
               [] OTHER ->
                    [ret |-> <<>>, calls |-> call,
                     msgs |-> info \o <<Msg("error", "doc_ai_unexpected_error")>>]

\* run_doc_ai_batch_on_udf_target_stage(current_session, doc_ai_model)
run_doc_ai_batch_on_udf_target_stage(current_session, doc_ai_model, out) ==
    IF ~Truthy(current_session)
    THEN [ret |-> <<>>, calls |-> <<>>, msgs |-> <<Msg("error", "no_session")>>]
    ELSE LET call == <<Call("batch", <<>>, <<>>)>>
             info == <<Msg("info", "starting_batch")>>
         IN  CASE out.kind = "ok" ->
                    [ret |-> [i \in 1..Len(out.rows) |->
                                [file |-> out.rows[i].RELATIVE_PATH,
                                 prediction |-> out.rows[i].PREDICTION]],
                     calls |-> call,
                     msgs |-> info \o (IF out.rows # <<>>
                                       THEN <<Msg("success", "batch_completed")>>
                                       ELSE <<Msg("info", "batch_no_files")>>)]
               [] out.kind = "sql" ->
                    [ret |-> <<>>, calls |-> call,
                     msgs |-> info \o <<Msg("error", "batch_sql_error")>> \o
                              (IF Contains(SigDirNotFound, out.msg) \/ Contains(SigDoesNotExist, out.msg)
                               THEN <<Msg("warning", "batch_stage_hint")>> ELSE <<>>)]
               [] OTHER ->
                    [ret |-> <<>>, calls |-> call,
                     msgs |-> info \o <<Msg("error", "batch_unexpected_error")>>]

\* ------------------------------------------------------- the script

\* What get_active_session() may do: return a session, return nothing, raise
SessionOutcomes == {"session", "none", "raised"}
SessionOf(o) == IF o = "session" THEN "Session" ELSE "None"

\* Mutant of Halts: the st.stop() is missing
Halts_NoStop(s) == FALSE

\* `if session: ... else: ... st.stop()`: whether the run stops at the check
Halts(s) == ~Truthy(s)

\* Mutant of IsPdf: the suffix is compared without lower()
IsPdf_CaseSensitive(f) == EndsWith(f, PdfSuffix)

\* str(f).lower().endswith(".pdf")
IsPdf(f) == EndsWith(Lower(f), PdfSuffix)

\* Mutant of DisplayPath: the slice is taken without the startswith test
DisplayPath_NoTest(root, path) == DropFirst(path, Len(root) + 1)

\* display_f_path / display_item_path
DisplayPath(root, path) ==
    IF root # <<>> /\ StartsWith(path, root \o <<"/">>)
    THEN DropFirst(path, Len(root) + 1)
    ELSE path

\* The listing column below the refresh button
RenderListing(present, files, root) ==
    IF ~present
    THEN [pdf |-> <<>>, other |-> <<>>, msgs |-> <<Msg("caption", "click_refresh")>>]
    ELSE IF files = <<>>
    THEN [pdf |-> <<>>, other |-> <<>>, msgs |-> <<Msg("info", "no_files_found")>>]
    ELSE LET pdf_files == SelectSeq(files, IsPdf)
             other_items == SelectSeq(files, LAMBDA f : ~IsPdf(f))
         IN  [pdf |-> [i \in 1..Len(pdf_files) |-> DisplayPath(root, pdf_files[i])],
              other |-> [i \in 1..Len(other_items) |-> DisplayPath(root, other_items[i])],
              msgs |-> IF pdf_files = <<>> THEN <<Msg("info", "no_pdf_files")>> ELSE <<>>]

\* str(x) of an optional text
Str(opt) == IF opt = <<>> THEN "None" ELSE opt[1]

\* `try: st.json(json.loads(text)) except (JSONDecodeError, TypeError): st.text_area(...)`
RenderResult(text) ==
    IF JsonLoads(text) THEN Msg("json", "structured") ELSE Msg("text_area", "raw")

\* tempfile.mkdtemp(): a directory that does not exist yet
DirChar == <<"1", "2", "3", "4", "5", "6", "7", "8", "9">>
TmpDirName(d) == <<"/", "t", "/">> \o <<DirChar[d]>>
FreshDir(dirs) == CHOOSE d \in 1..Len(DirChar) : d \notin dirs /\ \A e \in 1..(d - 1) : e \in dirs

\* os.path.join(temp_dir, uploaded_file.name)
PathJoin(d, name) == TmpDirName(d) \o <<"/">> \o name

\* Mutant of Cleanup: one try block around both removals, so that a failed
\* os.remove skips shutil.rmtree
Cleanup_OneTry(temp_dir, path_set, local_file_path, dirs, files, rm_ok, rmtree_ok) ==
    LET remove_called == path_set /\ local_file_path \in files
        skipped == remove_called /\ ~rm_ok
        files1 == IF remove_called /\ rm_ok THEN files \ {local_file_path} ELSE files
        rmtree_called == ~skipped /\ temp_dir # 0 /\ temp_dir \in dirs
        removed == rmtree_called /\ rmtree_ok
    IN  [dirs |-> IF removed THEN dirs \ {temp_dir} ELSE dirs,
         files |-> IF removed
                   THEN {f \in files1 : ~StartsWith(f, TmpDirName(temp_dir) \o <<"/">>)}
                   ELSE files1,
         msgs |-> IF skipped \/ (rmtree_called /\ ~rmtree_ok)
                  THEN <<Msg("warning", "could_not_remove_temp")>> ELSE <<>>,
         remove_called |-> remove_called,
         rmtree_called |-> rmtree_called]

\* The `finally` of the upload handler: os.remove, then shutil.rmtree, each
\* with its OSError turned into a warning.  temp_dir is 0 for None.
Cleanup(temp_dir, path_set, local_file_path, dirs, files, rm_ok, rmtree_ok) ==
    LET remove_called == path_set /\ local_file_path \in files
        files1 == IF remove_called /\ rm_ok THEN files \ {local_file_path} ELSE files
        rmtree_called == temp_dir # 0 /\ temp_dir \in dirs
        removed == rmtree_called /\ rmtree_ok
    IN  [dirs |-> IF removed THEN dirs \ {temp_dir} ELSE dirs,
         files |-> IF removed
                   THEN {f \in files1 : ~StartsWith(f, TmpDirName(temp_dir) \o <<"/">>)}
                   ELSE files1,
         msgs |-> (IF remove_called /\ ~rm_ok
                   THEN <<Msg("warning", "could_not_remove_temp_file")>> ELSE <<>>) \o
                  (IF rmtree_called /\ ~rmtree_ok
                   THEN <<Msg("warning", "could_not_remove_temp_dir")>> ELSE <<>>),
         remove_called |-> remove_called,
         rmtree_called |-> rmtree_called]

\* The body of `if st.button("Upload and Run Document AI")`: env is what the
\* local file system and the remote engine do.
UploadHandler(s, name, root, env, store, same, dirs, files) ==
    LET made_dir == env.mkdtemp = "ok"
        temp_dir == IF made_dir THEN FreshDir(dirs) ELSE 0
        local_file_path == IF made_dir THEN PathJoin(temp_dir, name) ELSE <<>>
        dirs1 == IF made_dir THEN dirs \cup {temp_dir} ELSE dirs
        file_made == made_dir /\ env.write \in {"ok", "write_fail"}
        files1 == IF file_made THEN files \cup {local_file_path} ELSE files
        written == made_dir /\ env.write = "ok"
        up == IF written
              THEN upload_file_to_stage(s, local_file_path, DEFAULT_UPLOAD_STAGE, env.put)
              ELSE [ret |-> FALSE, calls |-> <<>>, msgs |-> <<>>]
        put_done == up.calls # <<>> /\ env.put.kind = "ok"
        store1 == IF put_done
                  THEN StoreAfterPut(store, same, up.calls[1].sql, up.calls[1].arg)
                  ELSE store
        upload_success == up.ret
        ai == IF upload_success
              THEN run_doc_ai_on_file(s, name, DOC_AI_MODEL_NAME, env.query)
              ELSE [ret |-> <<>>, calls |-> <<>>, msgs |-> <<>>]
        shown == IF upload_success
                 THEN (IF ai.ret # <<>>
                       THEN <<Msg("subheader", "doc_ai_result"), RenderResult(ai.ret[1])>>
                       ELSE <<>>) \o
                      (IF EndsWith(root, DEFAULT_UPLOAD_STAGE)
                       THEN <<Msg("caption", "click_refresh_to_see_upload")>> ELSE <<>>)
                 ELSE <<>>
        fin == Cleanup(temp_dir, made_dir, local_file_path, dirs1, files1, env.rm, env.rmtree)
    IN  [raised |-> ~written,
         calls |-> up.calls \o ai.calls,
         msgs |-> up.msgs \o ai.msgs \o shown \o fin.msgs,
         store |-> store1,
         dirs |-> fin.dirs,
         files |-> fin.files,
         result |-> ai.ret,
         temp_dir |-> temp_dir,
         local_file_path |-> local_file_path,
         file_made |-> file_made,
         upload_success |-> upload_success,
         put |-> IF up.calls # <<>> THEN env.put ELSE NotRun,
         query |-> IF ai.calls # <<>> THEN env.query ELSE NotRun,
         remove_called |-> fin.remove_called,
         rmtree_called |-> fin.rmtree_called]

\* The body of `if st.button("Process ALL Files")`
BatchHandler(s, out) ==
    LET r == run_doc_ai_batch_on_udf_target_stage(s, DOC_AI_MODEL_NAME, out)
        batch_doc_ai_results == r.ret
    IN  [calls |-> r.calls,
         msgs |-> r.msgs \o
                  (IF batch_doc_ai_results # <<>>
                   THEN <<Msg("subheader", "batch_results"), Msg("dataframe", "batch_table")>> \o
                        [i \in 1..Len(batch_doc_ai_results) |->
                            RenderResult(Str(batch_doc_ai_results[i].prediction))]
                   ELSE <<Msg("info", "batch_no_results")>>)]

\* Mutant of RefreshHandler: the result is appended to the cached listing
RefreshHandler_Merge(s, root, out, present, files) ==
    IF root = <<>>
    THEN [present |-> present, files |-> files, calls |-> <<>>,
          msgs |-> <<Msg("warning", "enter_stage_name")>>, ls |-> NotRun]
    ELSE LET r == list_files_in_stage(s, root, out)
         IN  [present |-> TRUE, files |-> files \o r.ret, calls |-> r.calls, msgs |-> r.msgs,
              ls |-> IF r.calls # <<>> THEN out ELSE NotRun]

\* The body of `if st.button("Refresh File List")`
RefreshHandler(s, root, out, present, files) ==
    IF root = <<>>
    THEN [present |-> present, files |-> files, calls |-> <<>>,
          msgs |-> <<Msg("warning", "enter_stage_name")>>, ls |-> NotRun]
    ELSE LET r == list_files_in_stage(s, root, out)
         IN  [present |-> TRUE, files |-> r.ret, calls |-> r.calls, msgs |-> r.msgs,
              ls |-> IF r.calls # <<>> THEN out ELSE NotRun]

\* What a run records of itself in last_run
BlankRun(event, o) ==
    [event |-> event, outcome |-> o, name |-> <<>>,
     pre_present |-> listing_present, pre_files |-> files_in_stage_listing,
     prev_upload |-> IF last_run.event = "upload" /\ last_run.put.kind = "ok"
                     THEN last_run.name ELSE <<>>,
     ls |-> NotRun, put |-> NotRun, query |-> NotRun, batch |-> NotRun,
     mkdtemp |-> "none", write |-> "none", rm_ok |-> TRUE, rmtree_ok |-> TRUE,
     temp_dir |-> 0, local_file_path |-> <<>>, file_made |-> FALSE,
     remove_called |-> FALSE, rmtree_called |-> FALSE]

NoDisplay == [pdf |-> <<>>, other |-> <<>>]

\* The sidebar's session details
SidebarMsgs == <<Msg("sidebar", "session_details")>>

\* `if uploaded_file: st.write("Selected: ...")`
SelectedMsgs(f) == IF f # <<>> THEN <<Msg("write", "selected")>> ELSE <<>>

\* The controls a run renders when it reaches the end of the script
ControlsAtEnd(f) ==
    {"stage_name", "refresh_files", "file_uploader", "batch_run_main_stage"}
    \cup (IF f # <<>> THEN {"upload_and_run_single"} ELSE {})

\* The controls rendered when the upload handler raises: the script ends there
ControlsAtUpload == {"stage_name", "refresh_files", "file_uploader", "upload_and_run_single"}

\* The run's own variables
EndRun(o, ctrls, cls, msgs, end, disp, res, info) ==
    /\ session' = SessionOf(o)
    /\ session_init_error' = (o = "raised")
    /\ controls' = ctrls
    /\ calls' = cls
    /\ messages' = msgs
    /\ run_end' = end
    /\ display_paths' = disp
    /\ doc_ai_result' = res
    /\ last_run' = info

\* The `else` of the session check: the error is shown and st.stop() ends the
\* run; no widget is rendered, so the widgets' values are dropped.
Stopped(event, o) ==
    /\ EndRun(o, {}, <<>>,
              <<Msg("sidebar_error", "session_not_available"),
                Msg("error", "failed_to_establish_session")>>,
              "stopped", NoDisplay, <<>>, BlankRun(event, o))
    /\ uploaded_file' = <<>>
    /\ UNCHANGED <<stage_name_for_file_listing, listing_present, files_in_stage_listing,
                   same_root, stage_files, tmp_dirs, tmp_files>>

\* A run in which no button is pressed: typed is the text field's value and
\* f the file picker's
PlainRun(event, o, typed, f) ==
    \E root \in {LStrip(typed, "@")} :
    \E listing \in {RenderListing(listing_present, files_in_stage_listing, root)} :
        /\ EndRun(o, ControlsAtEnd(f), <<>>,
                  SidebarMsgs \o listing.msgs \o SelectedMsgs(f),
                  "completed", [pdf |-> listing.pdf, other |-> listing.other], <<>>,
                  BlankRun(event, o))
        /\ stage_name_for_file_listing' = root
        /\ uploaded_file' = f
        /\ UNCHANGED <<listing_present, files_in_stage_listing, same_root, stage_files,
                       tmp_dirs, tmp_files>>

\* The page is loaded or reloaded
LoadPage ==
    \E o \in SessionOutcomes :
        IF Halts(SessionOf(o))
        THEN Stopped("load", o)
        ELSE PlainRun("load", o, stage_name_for_file_listing, uploaded_file)

\* The user changes the stage-name field
EditStageName ==
    /\ "stage_name" \in controls
    /\ \E o \in SessionOutcomes, typed \in TypedStageNames :
        IF Halts(SessionOf(o))
        THEN Stopped("edit", o)
        ELSE PlainRun("edit", o, typed, uploaded_file)

\* The user picks a file, or clears the picker
SelectFile ==
    /\ "file_uploader" \in controls
    /\ \E o \in SessionOutcomes, f \in UploadNames \cup {<<>>} :
        IF Halts(SessionOf(o))
        THEN Stopped("select", o)
        ELSE PlainRun("select", o, stage_name_for_file_listing, f)

\* The user presses "Refresh File List"
RefreshFiles ==
    /\ "refresh_files" \in controls
    /\ \E o \in SessionOutcomes :
        LET s == SessionOf(o)
            root == LStrip(stage_name_for_file_listing, "@")
        IN  IF Halts(s)
            THEN Stopped("refresh", o)
            ELSE \E out \in LsOutcomes(FormattedStageName(root), stage_files, same_root) :
                \E h \in {RefreshHandler(s, root, out, listing_present, files_in_stage_listing)} :
                \E listing \in {RenderListing(h.present, h.files, root)} :
                    /\ EndRun(o, ControlsAtEnd(uploaded_file), h.calls,
                              SidebarMsgs \o h.msgs \o listing.msgs \o SelectedMsgs(uploaded_file),
                              "completed", [pdf |-> listing.pdf, other |-> listing.other], <<>>,
                              [BlankRun("refresh", o) EXCEPT !.ls = h.ls])
                    /\ stage_name_for_file_listing' = root
                    /\ listing_present' = h.present
                    /\ files_in_stage_listing' = h.files
                    /\ UNCHANGED <<uploaded_file, same_root, stage_files, tmp_dirs, tmp_files>>

\* The user presses "Upload and Run Document AI"
UploadAndRun ==
    /\ "upload_and_run_single" \in controls
    /\ Cardinality(tmp_dirs) < MaxTmpDirs
    /\ \E o \in SessionOutcomes :
        LET s == SessionOf(o)
            root == LStrip(stage_name_for_file_listing, "@")
            name == uploaded_file
        IN  IF Halts(s)
            THEN Stopped("upload", o)
            ELSE \E mk \in {"ok", "fail"} :
                 \E wr \in IF mk = "ok" THEN {"ok", "open_fail", "write_fail"} ELSE {"none"} :
                 \E put \in IF wr = "ok" THEN PutOutcomes ELSE {NotRun} :
                 \E q \in IF put.kind = "ok"
                          THEN PredictOutcomes(EscapeQuotes(name),
                                   StoreAfterPut(stage_files, same_root,
                                       FormattedStageName(DEFAULT_UPLOAD_STAGE), name))
                          ELSE {NotRun} :
                 \E rm \in IF wr \in {"ok", "write_fail"} THEN BOOLEAN ELSE {TRUE} :
                 \E rmtree \in IF mk = "ok" THEN BOOLEAN ELSE {TRUE} :
                \E h \in {UploadHandler(s, name, root,
                              [mkdtemp |-> mk, write |-> wr, put |-> put, query |-> q,
                               rm |-> rm, rmtree |-> rmtree],
                              stage_files, same_root, tmp_dirs, tmp_files)} :
                \E listing \in {RenderListing(listing_present, files_in_stage_listing, root)} :
                    /\ EndRun(o,
                              IF h.raised THEN ControlsAtUpload ELSE ControlsAtEnd(name),
                              h.calls,
                              SidebarMsgs \o listing.msgs \o SelectedMsgs(name) \o h.msgs,
                              IF h.raised THEN "exception" ELSE "completed",
                              [pdf |-> listing.pdf, other |-> listing.other],
                              h.result,
                              [BlankRun("upload", o) EXCEPT
                                  !.name = name,
                                  !.put = h.put, !.query = h.query,
                                  !.mkdtemp = mk,
                                  !.write = wr,
                                  !.rm_ok = IF h.remove_called THEN rm ELSE TRUE,
                                  !.rmtree_ok = IF h.rmtree_called THEN rmtree ELSE TRUE,
                                  !.temp_dir = h.temp_dir,
                                  !.local_file_path = h.local_file_path,
                                  !.file_made = h.file_made,
                                  !.remove_called = h.remove_called,
                                  !.rmtree_called = h.rmtree_called])
                    /\ stage_name_for_file_listing' = root
                    /\ stage_files' = h.store
                    /\ tmp_dirs' = h.dirs
                    /\ tmp_files' = h.files
                    /\ UNCHANGED <<listing_present, files_in_stage_listing, uploaded_file,
                                   same_root>>

\* The user presses "Process ALL Files"
BatchRun ==
    /\ "batch_run_main_stage" \in controls
    /\ \E o \in SessionOutcomes :
        LET s == SessionOf(o)
            root == LStrip(stage_name_for_file_listing, "@")
        IN  IF Halts(s)
            THEN Stopped("batch", o)
            ELSE \E out \in BatchOutcomes(stage_files) :
                \E h \in {BatchHandler(s, out)} :
                \E listing \in {RenderListing(listing_present, files_in_stage_listing, root)} :
                    /\ EndRun(o, ControlsAtEnd(uploaded_file), h.calls,
                              SidebarMsgs \o listing.msgs \o SelectedMsgs(uploaded_file) \o h.msgs,
                              "completed", [pdf |-> listing.pdf, other |-> listing.other], <<>>,
                              [BlankRun("batch", o) EXCEPT
                                  !.batch = IF h.calls # <<>> THEN out ELSE NotRun])
                    /\ stage_name_for_file_listing' = root
                    /\ UNCHANGED <<listing_present, files_in_stage_listing, uploaded_file,
                                   same_root, stage_files, tmp_dirs, tmp_files>>

\* The objects the stages may hold before the application is used
InitialObjects == {{}, {NameNested, NameText}}

Init ==
    /\ session = "None"
    /\ session_init_error = FALSE
    /\ stage_name_for_file_listing = DEFAULT_UPLOAD_STAGE
    /\ listing_present = FALSE
    /\ files_in_stage_listing = <<>>
    /\ uploaded_file = <<>>
    /\ same_root \in BOOLEAN
    /\ \E objs \in InitialObjects :
          stage_files = IF same_root
                        THEN [TARGET |-> objs, UPLOAD |-> {}, NONE |-> {}]
                        ELSE [TARGET |-> {}, UPLOAD |-> objs, NONE |-> {}]
    /\ tmp_dirs = {}
    /\ tmp_files = {}
    /\ calls = <<>>
    /\ messages = <<>>
    /\ run_end = "none"
    /\ controls = {}
    /\ display_paths = NoDisplay
    /\ doc_ai_result = <<>>
    /\ last_run = [event |-> "none", outcome |-> "none", name |-> <<>>,
                   pre_present |-> FALSE, pre_files |-> <<>>, prev_upload |-> <<>>,
                   ls |-> NotRun, put |-> NotRun, query |-> NotRun, batch |-> NotRun,
                   mkdtemp |-> "none", write |-> "none", rm_ok |-> TRUE, rmtree_ok |-> TRUE,
                   temp_dir |-> 0, local_file_path |-> <<>>, file_made |-> FALSE,
                   remove_called |-> FALSE, rmtree_called |-> FALSE]

Next ==
    \/ LoadPage
    \/ EditStageName
    \/ SelectFile
    \/ RefreshFiles
    \/ UploadAndRun
    \/ BatchRun

Spec == Init /\ [][Next]_vars

\* ------------------------------------------------------------- claims

Range(f) == {f[i] : i \in DOMAIN f}
Shown(level, text) == Msg(level, text) \in Range(messages)
ErrorShown == \E m \in Range(messages) : m.level = "error"
NoSessionResult(r, empty) ==
    r.ret = empty /\ r.calls = <<>> /\ r.msgs = <<Msg("error", "no_session")>>

\* C1: when the session is absent no remote call is performed in any run: the
\* run stops at the session check before any control is rendered, and each
\* helper called with no session returns its empty value and issues no call.
C1_NoSessionNoRemoteCall ==
    /\ (run_end # "none" /\ session = "None") =>
          (calls = <<>> /\ run_end = "stopped" /\ controls = {})
    /\ \A typed \in TypedStageNames :
          \A out \in LsOutcomes(FormattedStageName(typed), stage_files, same_root) :
             NoSessionResult(list_files_in_stage("None", typed, out), <<>>)
    /\ \A name \in UploadNames, out \in PutOutcomes :
          NoSessionResult(upload_file_to_stage("None", PathJoin(1, name),
                                               DEFAULT_UPLOAD_STAGE, out), FALSE)
    /\ \A name \in UploadNames :
          \A out \in PredictOutcomes(EscapeQuotes(name), stage_files) :
             NoSessionResult(run_doc_ai_on_file("None", name, DOC_AI_MODEL_NAME, out), <<>>)
    /\ \A out \in BatchOutcomes(stage_files) :
          NoSessionResult(run_doc_ai_batch_on_udf_target_stage("None", DOC_AI_MODEL_NAME, out),
                          <<>>)

\* C1 witness: the user pressed "Upload and Run Document AI" and the run found
\* no session.
C1_Witness ==
    /\ last_run.event = "upload"
    /\ session = "None"
    /\ run_end = "stopped"
    /\ session_init_error

\* C2 (as claimed): a refresh whose list call fails leaves the listing cached
\* by an earlier refresh as it was.
C2_FailedRefreshKeepsListing ==
    (/\ last_run.event = "refresh"
     /\ last_run.ls.kind \in {"sql", "exc"}
     /\ last_run.pre_present)
    => (listing_present /\ files_in_stage_listing = last_run.pre_files)

\* C3 (as claimed): once the temporary directory and the local file have been
\* created by an upload-and-process action, both are gone when it ends.
C3_TempAlwaysRemoved ==
    (last_run.event = "upload" /\ last_run.file_made)
    => (/\ last_run.temp_dir \notin tmp_dirs
        /\ last_run.local_file_path \notin tmp_files)

\* C3 (amended): once the temporary directory and the local file have been
\* created, both are gone when the action ends, whichever way it ends, unless
\* shutil.rmtree itself fails; then a warning is shown and the directory stays.
C3_TempRemovedUnlessRmtreeFails ==
    (last_run.event = "upload" /\ last_run.file_made)
    => IF last_run.rmtree_ok
       THEN /\ last_run.temp_dir \notin tmp_dirs
            /\ last_run.local_file_path \notin tmp_files
       ELSE /\ last_run.temp_dir \in tmp_dirs
            /\ Shown("warning", "could_not_remove_temp_dir")

\* C3 witness: the write of the local file failed after the file was created,
\* os.remove failed too, and the directory and the file are gone.
C3_Witness ==
    /\ last_run.event = "upload"
    /\ last_run.write = "write_fail"
    /\ last_run.file_made
    /\ ~last_run.rm_ok
    /\ run_end = "exception"
    /\ last_run.temp_dir \notin tmp_dirs
    /\ last_run.local_file_path \notin tmp_files

\* C4 (as claimed): when the single prediction is run on a path that is not in
\* the target stage and the failure carries "File not found", the not-found
\* hint is shown.
C4_FileNotFoundHint ==
    (/\ last_run.event = "upload"
     /\ last_run.query.kind = "sql"
     /\ Contains(SigFileNotFound, last_run.query.msg)
     /\ last_run.name \notin stage_files["TARGET"])
    => Shown("warning", "file_not_found_hint")

\* C5 (as claimed): no run ends with an error escaping its handler (only a
\* missing session stops a run), and a failed local write is shown as an error
\* message.
C5_ErrorsHandledAtBoundary ==
    /\ run_end \in {"none", "completed", "stopped"}
    /\ run_end = "stopped" => session = "None"
    /\ (last_run.event = "upload" /\ last_run.write \in {"open_fail", "write_fail"})
          => ErrorShown

\* C6: in an upload-and-process action the prediction is invoked if and only
\* if the put succeeded, after it, once, with the uploaded file's name.
C6_InferenceIffPutSucceeded ==
    (last_run.event = "upload" /\ run_end # "stopped")
    => LET predicts == SelectSeq(calls, LAMBDA c : c.op = "predict")
       IN  /\ (predicts # <<>>) <=> (last_run.put.kind = "ok")
           /\ last_run.put.kind = "ok" =>
                 /\ Len(calls) = 2
                 /\ calls[1].op = "put" /\ calls[1].arg = last_run.name
                 /\ calls[2].op = "predict" /\ calls[2].arg = last_run.name
                 /\ SqlUnescape(calls[2].sql) = last_run.name
           /\ last_run.put.kind \in {"sql", "exc"} =>
                 (Len(calls) = 1 /\ calls[1].op = "put")
           /\ last_run.put.kind = "none" => calls = <<>>

\* C6 witness: the put succeeded and the prediction followed it.
C6_Witness ==
    /\ last_run.event = "upload"
    /\ last_run.put.kind = "ok"
    /\ Len(calls) = 2
    /\ calls[2].op = "predict"

\* The paths the latest run displayed, with the listing entry each came from
PdfEntries == SelectSeq(files_in_stage_listing, IsPdf)
OtherEntries == SelectSeq(files_in_stage_listing, LAMBDA f : ~IsPdf(f))
Displayed ==
    {<<PdfEntries[i], display_paths.pdf[i]>> : i \in DOMAIN display_paths.pdf}
    \cup {<<OtherEntries[i], display_paths.other[i]>> : i \in DOMAIN display_paths.other}

\* C7 (as claimed): stripping the listing root from a displayed (already
\* stripped) path returns it unchanged.
C7_StripIdempotent ==
    \A e \in Displayed :
        DisplayPath(stage_name_for_file_listing, e[2]) = e[2]

\* C7 (amended): the strip removes one leading root + "/" and leaves a path
\* without that prefix unchanged, so stripping a displayed path again changes
\* nothing unless the displayed path itself starts with root + "/".
C7_StripOncePrefixAbsentUnchanged ==
    run_end = "completed" =>
    /\ Len(display_paths.pdf) = Len(PdfEntries) * (IF listing_present THEN 1 ELSE 0)
    /\ Len(display_paths.other) = Len(OtherEntries) * (IF listing_present THEN 1 ELSE 0)
    /\ \A e \in Displayed :
        LET prefix == stage_name_for_file_listing \o <<"/">>
        IN  /\ IF stage_name_for_file_listing # <<>> /\ StartsWith(e[1], prefix)
               THEN e[1] = prefix \o e[2]
               ELSE e[2] = e[1]
            /\ ~StartsWith(e[2], prefix) =>
                  DisplayPath(stage_name_for_file_listing, e[2]) = e[2]

\* C7 witness: a listed path was displayed without its root prefix.
C7_Witness ==
    /\ run_end = "completed"
    /\ \E e \in Displayed : e[1] # e[2]

\* C8: the single prediction returns the first row's first column when it is
\* there and not NULL; with no row or a NULL it reports "no result" with a
\* warning and no error, which a failed query never does.
C8_ResultOrNoResult ==
    (last_run.event = "upload" /\ last_run.query.kind # "none")
    => LET q == last_run.query
       IN  /\ (q.kind = "ok" /\ q.rows # <<>> /\ q.rows[1][1] # <<>>) =>
                 /\ doc_ai_result = q.rows[1][1]
                 /\ ~Shown("warning", "doc_ai_no_result")
                 /\ ~ErrorShown
           /\ (q.kind = "ok" /\ (q.rows = <<>> \/ q.rows[1][1] = <<>>)) =>
                 /\ doc_ai_result = <<>>
                 /\ Shown("warning", "doc_ai_no_result")
                 /\ ~ErrorShown
           /\ q.kind \in {"sql", "exc"} =>
                 /\ doc_ai_result = <<>>
                 /\ ~Shown("warning", "doc_ai_no_result")
                 /\ ErrorShown

\* C8 witness: the query succeeded with a NULL in the first row.
C8_Witness ==
    /\ last_run.event = "upload"
    /\ last_run.query.kind = "ok"
    /\ last_run.query.rows # <<>>
    /\ last_run.query.rows[1][1] = <<>>
    /\ doc_ai_result = <<>>

\* A refresh handler ran right after a successful upload, on the upload root
RefreshAfterUpload ==
    /\ last_run.event = "refresh"
    /\ run_end = "completed"
    /\ last_run.prev_upload # <<>>
    /\ stage_name_for_file_listing = DEFAULT_UPLOAD_STAGE

\* The listing holds an entry for name n and the run displayed it among the PDFs
ListedAsPdf(n) ==
    /\ \E i \in DOMAIN files_in_stage_listing :
          EndsWith(files_in_stage_listing[i], <<"/">> \o n)
    /\ \E i \in DOMAIN display_paths.pdf :
          EndsWith(display_paths.pdf[i], <<"/">> \o n)

\* C9 (as claimed): a refresh on the upload root right after a successful
\* upload of N yields a listing with an entry for N among the PDFs.
C9_UploadThenRefreshLists ==
    RefreshAfterUpload => ListedAsPdf(last_run.prev_upload)

\* C9 (amended): the same, for a refresh whose list call succeeds.
C9_UploadThenSuccessfulRefreshLists ==
    (RefreshAfterUpload /\ last_run.ls.kind = "ok") => ListedAsPdf(last_run.prev_upload)

\* C9 witness: such a refresh, with the uploaded name among the PDFs.
C9_Witness ==
    /\ RefreshAfterUpload
    /\ last_run.ls.kind = "ok"
    /\ ListedAsPdf(last_run.prev_upload)

\* C10: only the refresh handler writes the cached listing: every other run
\* leaves it as it was, and a refresh that reaches the list call replaces it
\* with that call's result.
C10_ListingWrittenOnlyByRefresh ==
    /\ (last_run.event # "refresh" \/ run_end = "stopped" \/ last_run.ls.kind = "none") =>
          /\ listing_present = last_run.pre_present
          /\ files_in_stage_listing = last_run.pre_files
    /\ (last_run.event = "refresh" /\ last_run.ls.kind # "none") =>
          /\ listing_present
          /\ files_in_stage_listing =
                (IF last_run.ls.kind = "ok" THEN last_run.ls.rows ELSE <<>>)

\* C10 witness: a successful upload-and-process left a non-empty cached
\* listing, now out of date, as it was.
C10_Witness ==
    /\ last_run.event = "upload"
    /\ last_run.put.kind = "ok"
    /\ last_run.pre_files # <<>>
    /\ files_in_stage_listing = last_run.pre_files

====
